---- MODULE Spec2Model ----
(***************************************************************************)
(* Model of app.py: the in-memory sales-outreach pipeline                  *)
(* (find_leads -> enrich_lead -> qualify_lead ->                           *)
(* generate_sequences_for_lead -> LEADS), the reply webhook and the        *)
(* keyword sentiment classifier.                                           *)
(*                                                                         *)
(* Python str values are TLA+ strings; Python dicts are functions over     *)
(* their key set (DOMAIN {} is the empty dict); Lead objects live in a     *)
(* heap keyed by their uuid, so that the batch lists of a run and the      *)
(* LEADS dict alias the same objects as they do in the program.            *)
(***************************************************************************)
EXTENDS Integers, Sequences, FiniteSets, TLC

VARIABLES
    CURRENT_ICP,   \* module global CURRENT_ICP (app.py:61)
    LEADS,         \* module global LEADS: its keys in insertion order (app.py:62)
    heap,          \* every Lead object created so far, keyed by its id
    seed,          \* number of uuid.uuid4() calls made so far
    pc,            \* per request thread: where its handler stands
    req,           \* per request thread: the input of the request being served
    icp,           \* per request thread: run_pipeline's parameter icp
    limit,         \* per request thread: run_pipeline's parameter limit
    batch,         \* per request thread: run_pipeline's list of leads (ids)
    idx,           \* per request thread: position of the running list comprehension / loop
    lead,          \* per request thread: webhook_reply's local lead (an id)
    resp,          \* per request thread: outcome of the last finished request
    replies,       \* number of webhook requests that found their lead so far
    arg,           \* call harness of the pure functions: the argument
    out            \* call harness of the pure functions: <<>> or <<result>>

vars == <<CURRENT_ICP, LEADS, heap, seed, pc, req, icp, limit, batch, idx, lead, resp,
          replies, arg, out>>

-----------------------------------------------------------------------------
(* Python values *)

\* Python's None. No string an input can carry equals it.
None == "<None>"

\* Python truthiness of a str-or-None value: `not x`.
Falsy(x) == x = None \/ x = ""

\* dict.get(key, default)
Get(d, key, default) == IF key \in DOMAIN d THEN d[key] ELSE default

Min(a, b) == IF a <= b THEN a ELSE b
Max(a, b) == IF a >= b THEN a ELSE b

\* The range of a sequence.
Range(s) == {s[i] : i \in DOMAIN s}

\* str(n) for a natural number.
RECURSIVE str(_)
str(n) == IF n < 10 THEN SubSeq("0123456789", n + 1, n + 1)
          ELSE str(n \div 10) \o SubSeq("0123456789", (n % 10) + 1, (n % 10) + 1)

\* The characters str.lower() changes, in code point order, and in LowerCase,
\* at the same place, what it makes of each. A string of this module holds the
\* characters of the first 256 code points and, beyond them, those whose code
\* point ends in a byte of 128 or more; a capital whose lower case is outside
\* that set (93 of them, such as U+0181, lowered to U+0253) is not in the table
\* but in NoLowerCase.
UpperCase ==
    "ABCDEFGHIJKLMNOPQRSTUVWXYZÀÁÂÃÄÅÆÇÈÉÊËÌÍ" \o
    "ÎÏÐÑÒÓÔÕÖØÙÚÛÜÝÞƂƄƇƋƎƑƘƠƢƤƦƧƩƬƮƯƱƲƳƵƷƸƼǄ" \o
    "ǅǇǈǊǋǍǏǑǓǕǗǙǛǞǠǢǤǦǨǪǬǮǱǲǴǶǷǸǺǼǾΆΈΉΊΌΎΏΑΒ" \o
    "ΓΔΕΖΗΘΙΚΛΜΝΞΟΠΡΣΤΥΦΧΨΩΪΫϏϘϚϜϞϠϢϤϦϨϪϬϮϴϷϹ" \o
    "ϺҀҊҌҎҐҒҔҖҘҚҜҞҠҢҤҦҨҪҬҮҰҲҴҶҸҺҼҾӀӁӃӅӇӉӋӍӐӒӔ" \o
    "ӖӘӚӜӞӠӢӤӦӨӪӬӮӰӲӴӶӸӺӼӾᎰᎱᎲᎳᎴᎵᎶᎷᎸᎹᎺᎻᎼᎽᎾᎿᏀᏁᏂ" \o
    "ᏃᏄᏅᏆᏇᏈᏉᏊᏋᏌᏍᏎᏏᏐᏑᏒᏓᏔᏕᏖᏗᏘᏙᏚᏛᏜᏝᏞᏟᏠᏡᏢᏣᏤᏥᏦᏧᏨᏩᏪ" \o
    "ᏫᏬᏭᏮᏯᏰᏱᏲᏳᏴᏵᲐᲑᲒᲓᲔᲕᲖᲗᲘᲙᲚᲛᲜᲝᲞᲟᲠᲡᲢᲣᲤᲥᲦᲧᲨᲩᲪᲫᲬ" \o
    "ᲭᲮᲯᲰᲱᲲᲳᲴᲵᲶᲷᲸᲹᲺᲽᲾᲿẀẂẄẆẈẊẌẎẐẒẔẞẠẢẤẦẨẪẬẮẰẲẴ" \o
    "ẶẸẺẼẾỀỂỄỆỈỊỌỎỐỒỔỖỘỚỜỞỠỢỤỦỨỪỬỮỰỲỴỶỸỺỼỾᾈᾉᾊ" \o
    "ᾋᾌᾍᾎᾏᾘᾙᾚᾛᾜᾝᾞᾟᾨᾩᾪᾫᾬᾭᾮᾯᾸᾹᾼῌῘῙῨῩῬῼↃⒶⒷⒸⒹⒺⒻⒼⒽ" \o
    "ⒾⒿⓀⓁⓂⓃⓄⓅⓆⓇⓈⓉⓊⓋⓌⓍⓎⓏⲀⲂⲄⲆⲈⲊⲌⲎⲐⲒⲔⲖⲘⲚⲜⲞⲠⲢⲤⲦⲨⲪ" \o
    "ⲬⲮⲰⲲⲴⲶⲸⲺⲼⲾⳀⳂⳄⳆⳈⳊⳌⳎⳐⳒⳔⳖⳘⳚⳜⳞⳠⳢⳫⳭⳲꚀꚂꚄꚆꚈꚊꚌꚎꚐ" \o
    "ꚒꚔꚖꚘꚚꞀꞂꞄꞆꞋꞐꞒꞖꞘꞚꞜꞞꞠꞢꞤꞦꞨꞰꞱꞲꞴꞶꞸꞺꞼꞾꟀꟂꟄꟅꟆꟇꟉꟐꟖ" \o
    "ꟘꟵ"
LowerCase ==
    "abcdefghijklmnopqrstuvwxyzàáâãäåæçèéêëìí" \o
    "îïðñòóôõöøùúûüýþƃƅƈƌǝƒƙơƣƥʀƨʃƭʈưʊʋƴƶʒƹƽǆ" \o
    "ǆǉǉǌǌǎǐǒǔǖǘǚǜǟǡǣǥǧǩǫǭǯǳǳǵƕƿǹǻǽǿάέήίόύώαβ" \o
    "γδεζηθικλμνξοπρστυφχψωϊϋϗϙϛϝϟϡϣϥϧϩϫϭϯθϸϲ" \o
    "ϻҁҋҍҏґғҕҗҙқҝҟҡңҥҧҩҫҭүұҳҵҷҹһҽҿӏӂӄӆӈӊӌӎӑӓӕ" \o
    "ӗәӛӝӟӡӣӥӧөӫӭӯӱӳӵӷӹӻӽӿꮀꮁꮂꮃꮄꮅꮆꮇꮈꮉꮊꮋꮌꮍꮎꮏꮐꮑꮒ" \o
    "ꮓꮔꮕꮖꮗꮘꮙꮚꮛꮜꮝꮞꮟꮠꮡꮢꮣꮤꮥꮦꮧꮨꮩꮪꮫꮬꮭꮮꮯꮰꮱꮲꮳꮴꮵꮶꮷꮸꮹꮺ" \o
    "ꮻꮼꮽꮾꮿᏸᏹᏺᏻᏼᏽაბგდევზთიკლმნოპჟრსტუფქღყშჩცძწ" \o
    "ჭხჯჰჱჲჳჴჵჶჷჸჹჺჽჾჿẁẃẅẇẉẋẍẏẑẓẕßạảấầẩẫậắằẳẵ" \o
    "ặẹẻẽếềểễệỉịọỏốồổỗộớờởỡợụủứừửữựỳỵỷỹỻỽỿᾀᾁᾂ" \o
    "ᾃᾄᾅᾆᾇᾐᾑᾒᾓᾔᾕᾖᾗᾠᾡᾢᾣᾤᾥᾦᾧᾰᾱᾳῃῐῑῠῡῥῳↄⓐⓑⓒⓓⓔⓕⓖⓗ" \o
    "ⓘⓙⓚⓛⓜⓝⓞⓟⓠⓡⓢⓣⓤⓥⓦⓧⓨⓩⲁⲃⲅⲇⲉⲋⲍⲏⲑⲓⲕⲗⲙⲛⲝⲟⲡⲣⲥⲧⲩⲫ" \o
    "ⲭⲯⲱⲳⲵⲷⲹⲻⲽⲿⳁⳃⳅⳇⳉⳋⳍⳏⳑⳓⳕⳗⳙⳛⳝⳟⳡⳣⳬⳮⳳꚁꚃꚅꚇꚉꚋꚍꚏꚑ" \o
    "ꚓꚕꚗꚙꚛꞁꞃꞅꞇꞌꞑꞓꞗꞙꞛꞝꞟꞡꞣꞥꞧꞩʞʇʝꞵꞷꞹꞻꞽꞿꟁꟃꞔʂᶎꟈꟊꟑꟗ" \o
    "ꟙꟶ"

\* The table as a function of the character.
LowerMap ==
    [c \in {SubSeq(UpperCase, i, i) : i \in 1..Len(UpperCase)} |->
        LET i == CHOOSE i \in 1..Len(UpperCase) : SubSeq(UpperCase, i, i) = c
        IN  SubSeq(LowerCase, i, i)]

\* The capitals whose lower case no string of this module can hold.
NoLowerCaseChars ==
    "ƁƆƉƊƏƐƓƔƖƗƜƝƟϽϾϿႠႡႢႣႤႥႦႧႨႩႪႫႬႭႮႯႰႱႲႳႴႵႶႷႸႹႺႻႼႽႾႿჀჁ" \o
    "ჂჃჄჅჇჍᎠᎡᎢᎣᎤᎥᎦᎧᎨᎩᎪᎫᎬᎭᎮᎯᾺΆῈΈῊΉῚΊῪΎῸΌῺΏꞍꞪꞫꞬꞭꞮꞳ"
NoLowerCase == {SubSeq(NoLowerCaseChars, i, i) : i \in 1..Len(NoLowerCaseChars)}

\* str.lower() of one character out of context. It is defined on the
\* characters whose lower case a string of this module can hold: on a capital
\* of NoLowerCase no arm applies and the value is left open, so a text with
\* such a capital is outside what the module describes.
LowerChar(c) ==
    CASE c \in DOMAIN LowerMap -> LowerMap[c]
      [] c \notin DOMAIN LowerMap \cup NoLowerCase -> c

\* The characters str.lower() passes over when it looks for the letters
\* around a capital sigma (Unicode Case_Ignorable).
CaseIgnorableChars ==
    "'.:^¨­¯´·¸ʰʱʲʳʴʵʶʷʸʹʺʻʼʽʾʿˀˁ˂˃˄˅ˆˇˈˉˊˋˌˍ" \o
    "ˎˏːˑ˒˓˔˕˖˗˘˙˚˛˜˝˞˟ˠˡˢˣˤ˥˦˧˨˩˪˫ˬ˭ˮ˯˰˱˲˳˴˵" \o
    "˶˷˸˹˺˻˼˽˾˿΄΅·҃҄҅҆҇҈҉֑֖֛֢֣֤֚֒֓֔֕֗֘֙֜֝֞֟֠֡" \o
    "ְֱֲֳִֵֶַָׇֹֺֻּֽֿׁׂ֥֦֧֪ׅ֭֮֨֩֫֬֯ׄ״ۖۗۘۙۚۛۜ۝" \o
    "ۣ۟۠ۡۢۤۥۦ۪ۭۧۨ۫۬ަާިީުޫެޭޮޯް߲߫߬߭߮߯߰߱߳ߴߵߺ߽࢈࢐" \o
    "࢑࢙࢚࢛࢘࢜࢝࢞࢟ࣉ࣏࣐࣑࣒࣓࣊࣋࣌࣍࣎ࣔࣕࣖࣗࣘࣙࣚࣛࣜࣝࣞࣟ࣠࣡࣢ࣣࣦࣤࣥࣧ" \o
    "ࣰࣱࣲࣩ࣭࣮࣯ࣶࣹࣺࣨ࣪࣫࣬ࣳࣴࣵࣷࣸࣻࣼࣽࣾࣿঁ়ুূৃৄ্ৢৣ৾ઁં઼ુૂૃ" \o
    "ૄૅેૈ્ૢૣૺૻૼ૽૾૿ஂீ்ಁ಼ಿೆೌ್ೢೣඁ්ිීුූັິີຶື຺ຸູົຼ" \o
    "ໆ່້໊໋໌ໍ྄ཱྀྀྂྃ྆྇ྍྎྏྐྑྒྒྷྔྕྖྗྙྚྛྜྜྷྞྟྠྡྡྷྣྤྥྦྦྷ" \o
    "ྨྩྪྫྫྷྭྮྯྰྱྲླྴྵྶྷྸྐྵྺྻྼ࿆ႂႅႆႍႝჼ឴឵ិីឹឺុូួំ៉៊" \o
    "់៌៍៎៏័៑្៓ៗ៝ᢅᢆᢩᪧ᪵᪶᪷᪸᪹᪺᪽᪰᪱᪲᪳᪴᪻᪼᪾ᪿᫀ᫃᫄᫁᫂᫅᫆᫇᫈" \o
    "᫊᫉᫋ᫌᫍᫎᮀᮁᮢᮣᮤᮥᮨᮩ᮫ᮬᮭ᯦ᯨᯩᯭᯯᯰᯱ᳔᳕᳖᳗᳘᳙᳜᳝᳞᳟᳐᳑᳒᳚᳛᳠" \o
    "᳢᳣᳤᳥᳦᳧᳨᳭᳴᳸᳹ᶛᶜᶝᶞᶟᶠᶡᶢᶣᶤᶥᶦᶧᶨᶩᶪᶫᶬᶭᶮᶯᶰᶱᶲᶳᶴᶵᶶᶷ" \o
    "ᶸᶹᶺᶻᶼᶽᶾᶿ᷐᷎᷂᷊᷏᷀᷁᷃᷄᷅᷆᷇᷈᷉᷋᷌᷑᷒ᷓᷔᷕᷖᷗᷘᷙᷚᷛᷜᷝᷞᷟ᷍" \o
    "᷺᷹᷽᷿᷷᷸ᷠᷡᷢᷣᷤᷥᷦᷧᷨᷩᷪᷫᷬᷭᷮᷯᷰᷱᷲᷳᷴ᷵᷻᷾᷶᷼᾽᾿῀῁῍῎῏῝" \o
    "῞῟῭΅`´῾ₐₑₒₓₔₕₖₗₘₙₚₛₜ⃒⃓⃘⃙⃚⃐⃑⃔⃕⃖⃗⃛⃜⃝⃞⃟⃠⃡⃢⃣" \o
    "⃤⃥⃦⃪⃫⃨⃬⃭⃮⃯⃧⃩⃰⳯⳰⳱ⷠⷡⷢⷣⷤⷥⷦⷧⷨⷩⷪⷫⷬⷭⷮⷯⷰⷱⷲⷳⷴⷵⷶⷷ" \o
    "゙゚ⷸⷹⷺⷻⷼⷽⷾⷿ゛゜ゝゞーヽヾꓸꓹꓺꓻꓼꓽꚜꚝꚞꚟ꛰꛱ꞈ꞉꞊ꟲꟳꟴꟸꟹ꣄ꣅ꣠" \o
    "꣡꣢꣣꣤꣥꣦꣧꣨꣩꣪꣫꣬꣭꣮꣯꣰꣱ꣿꦀꦁꦂ꦳ꦶꦷꦸꦹꦼꦽꧏꧥꧦꪴꪰꪲꪳꪷꪸꪾ꪿꫁" \o
    "ꫝꫬꫭꫳꫴ꫶ꯥꯨ꯭﮲﮳﮴﮵﮶﮷﮸﮹﮺﮻﮼﮽﮾﮿﯀﯁﯂﻿ﾞﾟ￣￹￺￻"
CaseIgnorable == {SubSeq(CaseIgnorableChars, i, i) : i \in 1..Len(CaseIgnorableChars)}

\* The cased letters (Unicode Cased) that are not case-ignorable.
CasedChars ==
    "ABCDEFGHIJKLMNOPQRSTUVWXYZabcdefghijklmn" \o
    "opqrstuvwxyzªµºÀÁÂÃÄÅÆÇÈÉÊËÌÍÎÏÐÑÒÓÔÕÖØÙ" \o
    "ÚÛÜÝÞßàáâãäåæçèéêëìíîïðñòóôõöøùúûüýþÿƀƁƂ" \o
    "ƃƄƅƆƇƈƉƊƋƌƍƎƏƐƑƒƓƔƕƖƗƘƙƚƛƜƝƞƟƠơƢƣƤƥƦƧƨƩƪ" \o
    "ƫƬƭƮƯưƱƲƳƴƵƶƷƸƹƺƼƽƾƿǄǅǆǇǈǉǊǋǌǍǎǏǐǑǒǓǔǕǖǗ" \o
    "ǘǙǚǛǜǝǞǟǠǡǢǣǤǥǦǧǨǩǪǫǬǭǮǯǰǱǲǳǴǵǶǷǸǹǺǻǼǽǾǿ" \o
    "ʀʁʂʃʄʅʆʇʈʉʊʋʌʍʎʏʐʑʒʓʕʖʗʘʙʚʛʜʝʞʟʠʡʢʣʤʥʦʧʨ" \o
    "ʩʪʫʬʭʮʯΆΈΉΊΌΎΏΐΑΒΓΔΕΖΗΘΙΚΛΜΝΞΟΠΡΣΤΥΦΧΨΩΪ" \o
    "ΫάέήίΰαβγδεζηθικλμνξοπρςστυφχψωϊϋόύώϏϐϑϒ" \o
    "ϓϔϕϖϗϘϙϚϛϜϝϞϟϠϡϢϣϤϥϦϧϨϩϪϫϬϭϮϯϰϱϲϳϴϵϷϸϹϺϻ" \o
    "ϼϽϾϿҀҁҊҋҌҍҎҏҐґҒғҔҕҖҗҘҙҚқҜҝҞҟҠҡҢңҤҥҦҧҨҩҪҫ" \o
    "ҬҭҮүҰұҲҳҴҵҶҷҸҹҺһҼҽҾҿӀӁӂӃӄӅӆӇӈӉӊӋӌӍӎӏӐӑӒӓ" \o
    "ӔӕӖӗӘәӚӛӜӝӞӟӠӡӢӣӤӥӦӧӨөӪӫӬӭӮӯӰӱӲӳӴӵӶӷӸӹӺӻ" \o
    "ӼӽӾӿրցւփքօֆևֈႠႡႢႣႤႥႦႧႨႩႪႫႬႭႮႯႰႱႲႳႴႵႶႷႸႹႺ" \o
    "ႻႼႽႾႿჀჁჂჃჄჅჇჍაბგდევზთიკლმნოპჟრსტუფქღყშჩც" \o
    "ძწჭხჯჰჱჲჳჴჵჶჷჸჹჺჽჾჿᎠᎡᎢᎣᎤᎥᎦᎧᎨᎩᎪᎫᎬᎭᎮᎯᎰᎱᎲᎳᎴ" \o
    "ᎵᎶᎷᎸᎹᎺᎻᎼᎽᎾᎿᏀᏁᏂᏃᏄᏅᏆᏇᏈᏉᏊᏋᏌᏍᏎᏏᏐᏑᏒᏓᏔᏕᏖᏗᏘᏙᏚᏛᏜ" \o
    "ᏝᏞᏟᏠᏡᏢᏣᏤᏥᏦᏧᏨᏩᏪᏫᏬᏭᏮᏯᏰᏱᏲᏳᏴᏵᏸᏹᏺᏻᏼᏽᲀᲁᲂᲃᲄᲅᲆᲇᲈ" \o
    "ᲐᲑᲒᲓᲔᲕᲖᲗᲘᲙᲚᲛᲜᲝᲞᲟᲠᲡᲢᲣᲤᲥᲦᲧᲨᲩᲪᲫᲬᲭᲮᲯᲰᲱᲲᲳᲴᲵᲶᲷ" \o
    "ᲸᲹᲺᲽᲾᲿᶀᶁᶂᶃᶄᶅᶆᶇᶈᶉᶊᶋᶌᶍᶎᶏᶐᶑᶒᶓᶔᶕᶖᶗᶘᶙᶚẀẁẂẃẄẅẆ" \o
    "ẇẈẉẊẋẌẍẎẏẐẑẒẓẔẕẖẗẘẙẚẛẜẝẞẟẠạẢảẤấẦầẨẩẪẫẬậẮ" \o
    "ắẰằẲẳẴẵẶặẸẹẺẻẼẽẾếỀềỂểỄễỆệỈỉỊịỌọỎỏỐốỒồỔổỖ" \o
    "ỗỘộỚớỜờỞởỠỡỢợỤụỦủỨứỪừỬửỮữỰựỲỳỴỵỶỷỸỹỺỻỼỽỾ" \o
    "ỿᾀᾁᾂᾃᾄᾅᾆᾇᾈᾉᾊᾋᾌᾍᾎᾏᾐᾑᾒᾓᾔᾕᾖᾗᾘᾙᾚᾛᾜᾝᾞᾟᾠᾡᾢᾣᾤᾥᾦ" \o
    "ᾧᾨᾩᾪᾫᾬᾭᾮᾯᾰᾱᾲᾳᾴᾶᾷᾸᾹᾺΆᾼιῂῃῄῆῇῈΈῊΉῌῐῑῒΐῖῗῘῙ" \o
    "ῚΊῠῡῢΰῤῥῦῧῨῩῪΎῬῲῳῴῶῷῸΌῺΏῼↃↄⒶⒷⒸⒹⒺⒻⒼⒽⒾⒿⓀⓁⓂ" \o
    "ⓃⓄⓅⓆⓇⓈⓉⓊⓋⓌⓍⓎⓏⓐⓑⓒⓓⓔⓕⓖⓗⓘⓙⓚⓛⓜⓝⓞⓟⓠⓡⓢⓣⓤⓥⓦⓧⓨⓩⲀ" \o
    "ⲁⲂⲃⲄⲅⲆⲇⲈⲉⲊⲋⲌⲍⲎⲏⲐⲑⲒⲓⲔⲕⲖⲗⲘⲙⲚⲛⲜⲝⲞⲟⲠⲡⲢⲣⲤⲥⲦⲧⲨ" \o
    "ⲩⲪⲫⲬⲭⲮⲯⲰⲱⲲⲳⲴⲵⲶⲷⲸⲹⲺⲻⲼⲽⲾⲿⳀⳁⳂⳃⳄⳅⳆⳇⳈⳉⳊⳋⳌⳍⳎⳏⳐ" \o
    "ⳑⳒⳓⳔⳕⳖⳗⳘⳙⳚⳛⳜⳝⳞⳟⳠⳡⳢⳣⳤⳫⳬⳭⳮⳲⳳꚀꚁꚂꚃꚄꚅꚆꚇꚈꚉꚊꚋꚌꚍ" \o
    "ꚎꚏꚐꚑꚒꚓꚔꚕꚖꚗꚘꚙꚚꚛꞀꞁꞂꞃꞄꞅꞆꞇꞋꞌꞍꞎꞐꞑꞒꞓꞔꞕꞖꞗꞘꞙꞚꞛꞜꞝ" \o
    "ꞞꞟꞠꞡꞢꞣꞤꞥꞦꞧꞨꞩꞪꞫꞬꞭꞮꞯꞰꞱꞲꞳꞴꞵꞶꞷꞸꞹꞺꞻꞼꞽꞾꞿꟀꟁꟂꟃꟄꟅ" \o
    "ꟆꟇꟈꟉꟊꟐꟑꟓꟕꟖꟗꟘꟙꟵꟶꟺꮀꮁꮂꮃꮄꮅꮆꮇꮈꮉꮊꮋꮌꮍꮎꮏꮐꮑꮒꮓꮔꮕꮖꮗ" \o
    "ꮘꮙꮚꮛꮜꮝꮞꮟꮠꮡꮢꮣꮤꮥꮦꮧꮨꮩꮪꮫꮬꮭꮮꮯꮰꮱꮲꮳꮴꮵꮶꮷꮸꮹꮺꮻꮼꮽꮾꮿ"
Cased == {SubSeq(CasedChars, i, i) : i \in 1..Len(CasedChars)}

\* The capital sigma at place i of s ends a word: the nearest character before
\* it that is not case-ignorable is a cased letter, and the nearest one after
\* it, if any, is not.
final_sigma(s, i) ==
    /\ \E j \in 1..(i - 1) :
          /\ SubSeq(s, j, j) \in Cased
          /\ \A k \in (j + 1)..(i - 1) : SubSeq(s, k, k) \in CaseIgnorable
    /\ ~\E j \in (i + 1)..Len(s) :
          /\ SubSeq(s, j, j) \in Cased
          /\ \A k \in (i + 1)..(j - 1) : SubSeq(s, k, k) \in CaseIgnorable

\* The lower case of s from place i on.
RECURSIVE lower_from(_, _)
lower_from(s, i) ==
    IF i > Len(s) THEN ""
    ELSE (IF SubSeq(s, i, i) = "Σ" /\ final_sigma(s, i) THEN "ς"
          ELSE LowerChar(SubSeq(s, i, i)))
         \o lower_from(s, i + 1)

\* str.lower()
lower(s) == lower_from(s, 1)

\* str.replace(' ', '')
RECURSIVE replace_spaces(_)
replace_spaces(s) ==
    IF s = "" THEN ""
    ELSE (IF SubSeq(s, 1, 1) = " " THEN "" ELSE SubSeq(s, 1, 1))
         \o replace_spaces(SubSeq(s, 2, Len(s)))

\* Python's `w in s` for two strings (the empty string is in every string).
In(w, s) == \E i \in 1..(Len(s) - Len(w) + 1) : SubSeq(s, i, i + Len(w) - 1) = w

\* Python's list slice xs[:n]: a negative n counts from the end.
SlicePrefix(xs, n) ==
    IF n >= 0 THEN SubSeq(xs, 1, Min(n, Len(xs)))
    ELSE SubSeq(xs, 1, Max(Len(xs) + n, 0))

-----------------------------------------------------------------------------
(* Reply classifier: detect_reply_and_sentiment *)

positive_words == <<"yes", "sure", "interested", "let's talk", "call">>
negative_words == <<"not interested", "stop", "unsubscribe", "no">>

\* any(word in lowered for word in words)
any_word_in(words, lowered) == \E i \in DOMAIN words : In(words[i], lowered)

\* Mutant: the negative keywords are tested before the positive ones.
detect_negative_first(message_text) ==
    LET lowered == lower(message_text)
    IN  IF any_word_in(negative_words, lowered) THEN [sentiment |-> "negative"]
        ELSE IF any_word_in(positive_words, lowered) THEN [sentiment |-> "positive"]
        ELSE [sentiment |-> "neutral"]

detect_reply_and_sentiment(message_text) ==
    LET lowered == lower(message_text)
    IN  IF any_word_in(positive_words, lowered) THEN [sentiment |-> "positive"]
        ELSE IF any_word_in(negative_words, lowered) THEN [sentiment |-> "negative"]
        ELSE [sentiment |-> "neutral"]

-----------------------------------------------------------------------------
(* Data model *)

EmptyDict == [k \in {} |-> ""]

\* ICP(job_title=..., company=..., ...): the dataclass constructor.
ICP(job_title, company, location, size_min, size_max, industry, value_prop) ==
    [job_title |-> job_title, company |-> company, location |-> location,
     size_min |-> size_min, size_max |-> size_max, industry |-> industry,
     value_prop |-> value_prop]

\* CURRENT_ICP = None
NoICP == [none |-> TRUE]

\* Lead(id=..., first_name=..., ...): the dataclass constructor with its defaults.
Lead(id, first_name, last_name, job_title, company_name, location) ==
    [id |-> id, first_name |-> first_name, last_name |-> last_name,
     job_title |-> job_title, company_name |-> company_name, location |-> location,
     email |-> "", linkedin_url |-> "", website |-> "",
     enrichment |-> EmptyDict, qualification_score |-> 0,
     channel_sequences |-> EmptyDict, status |-> "new", sentiment |-> ""]

\* The status chain of the Lead dataclass comment: new, enriched, qualified, messaged, replied.
StatusChain == <<"new", "enriched", "qualified", "messaged", "replied">>

-----------------------------------------------------------------------------
(* Pipeline functions *)

sample_companies ==
    <<"PixelGrowth Agency", "NYC Performance Media", "Brooklyn Digital Studio",
      "Manhattan Funnels Co.", "Queens Creative Labs">>

\* str(uuid.uuid4()) for the n-th call (n counted from 0): a fresh identifier.
uuid4(n) == "u" \o str(n + 1)

\* find_leads(icp, limit): the list of new Lead objects; s is the number of
\* uuid4() calls made before.
find_leads(i, lim, s) ==
    LET companies == SlicePrefix(sample_companies, lim)
    IN  [k \in 1..Len(companies) |->
            Lead(uuid4(s + k - 1), "Founder" \o str(k), "Example",
                 i.job_title, companies[k], i.location)]

enrich_lead(l) ==
    [l EXCEPT
       !.email = lower(l.first_name) \o "." \o lower(l.last_name) \o "@"
                 \o lower(replace_spaces(l.company_name)) \o ".com",
       !.linkedin_url = "https://www.linkedin.com/in/" \o lower(l.first_name)
                        \o "-" \o lower(l.last_name),
       !.website = "https://" \o lower(replace_spaces(l.company_name)) \o ".com",
       !.enrichment = [k \in {"company_size", "tech_stack", "recent_activity"} |->
                          CASE k = "company_size" -> "10-25"
                            [] k = "tech_stack" -> <<"HubSpot", "Meta Ads", "Google Ads">>
                            [] OTHER -> "Recently hired a paid media specialist."],
       !.status = "enriched"]

\* qualify_lead raises AttributeError when it calls .lower() on None.
qualify_raises(l, i) ==
    i.job_title = None \/ l.job_title = None \/ i.company = None
    \/ i.location = None \/ l.location = None

\* Mutant: the location rule takes its points away (score -= 2).
qualify_score_penalty(l, i) ==
    (IF In(lower(i.job_title), lower(l.job_title)) THEN 3 ELSE 0)
    + (IF In(lower(i.company), "digital marketing agency") THEN 2 ELSE 0)
    - (IF In(lower(i.location), lower(l.location)) THEN 2 ELSE 0)
    + (LET company_size_str == Get(l.enrichment, "company_size", "1-50")
       IN  IF In("1-50", company_size_str) \/ In("10-25", company_size_str)
           THEN 3 ELSE 0)

\* The local `score` of qualify_lead before the cap.
qualify_score(l, i) ==
    (IF In(lower(i.job_title), lower(l.job_title)) THEN 3 ELSE 0)
    + (IF In(lower(i.company), "digital marketing agency") THEN 2 ELSE 0)
    + (IF In(lower(i.location), lower(l.location)) THEN 2 ELSE 0)
    + (LET company_size_str == Get(l.enrichment, "company_size", "1-50")
       IN  IF In("1-50", company_size_str) \/ In("10-25", company_size_str)
           THEN 3 ELSE 0)

\* Mutant: qualify_lead marks the lead messaged, skipping a state.
qualify_lead_skips(l, i) ==
    [l EXCEPT !.qualification_score = Min(qualify_score(l, i), 10),
              !.status = "messaged"]

qualify_lead(l, i) ==
    [l EXCEPT !.qualification_score = Min(qualify_score(l, i), 10),
              !.status = "qualified"]

\* generate_sequences_for_lead raises AttributeError at icp.industry.lower().
generate_raises(l, i) == i.industry = None

\* The email and LinkedIn sequences: two steps each. The free text of a step
\* (subject, body, message) is left out; no stage reads it back.
email_sequence == <<[step |-> 1], [step |-> 2]>>
linkedin_sequence == <<[step |-> 1, type |-> "connection_request"],
                       [step |-> 2, type |-> "follow_up"]>>

\* The value assigned to lead.channel_sequences (app.py:238-241).
channel_sequences(l, i) ==
    [c \in {"email", "linkedin"} |->
        IF c = "email" THEN email_sequence ELSE linkedin_sequence]

-----------------------------------------------------------------------------
(* Bounds and inputs *)

\* uuid4() calls a behaviour may make: caps the number of Lead objects.
MaxLeads == 5
\* Webhook requests a behaviour may serve past the lookup of the lead.
MaxReplies == 2
\* A reply text of the classifier harness is made of at most MaxTokens tokens.
MaxTokens == 2

\* Request threads of the server; one thread serves one request at a time.
Threads == {1, 2}
\* Requests served one after the other use a single thread.
SeqThreads == {1}

\* The characters int() skips around a number: tab, line feed, vertical tab,
\* form feed, carriage return, blank, next line (U+0085), no-break space
\* (U+00A0) and the Ogham space mark (U+1680). The other spaces of Unicode
\* (U+2000 and on) are beyond what a string of this module holds.
WhitespaceChars == "\t\n\f\r   "
Whitespace == {SubSeq(WhitespaceChars, i, i) : i \in 1..Len(WhitespaceChars)}

\* The text s without the whitespace at its two ends.
RECURSIVE strip(_)
strip(s) ==
    IF s # "" /\ SubSeq(s, 1, 1) \in Whitespace THEN strip(SubSeq(s, 2, Len(s)))
    ELSE IF s # "" /\ SubSeq(s, Len(s), Len(s)) \in Whitespace
         THEN strip(SubSeq(s, 1, Len(s) - 1))
    ELSE s

\* The decimal digits int() reads: each text holds the digits 0 to 9 of one
\* script, ASCII first.
DigitRuns == <<
    "0123456789",
    "۰۱۲۳۴۵۶۷۸۹",
    "߀߁߂߃߄߅߆߇߈߉",
    "০১২৩৪৫৬৭৮৯",
    "૦૧૨૩૪૫૬૭૮૯",
    "௦௧௨௩௪௫௬௭௮௯",
    "೦೧೨೩೪೫೬೭೮೯",
    "෦෧෨෩෪෫෬෭෮෯",
    "໐໑໒໓໔໕໖໗໘໙",
    "႐႑႒႓႔႕႖႗႘႙",
    "០១២៣៤៥៦៧៨៩",
    "᧐᧑᧒᧓᧔᧕᧖᧗᧘᧙",
    "᪀᪁᪂᪃᪄᪅᪆᪇᪈᪉",
    "᪐᪑᪒᪓᪔᪕᪖᪗᪘᪙",
    "᮰᮱᮲᮳᮴᮵᮶᮷᮸᮹",
    "꣐꣑꣒꣓꣔꣕꣖꣗꣘꣙",
    "꧐꧑꧒꧓꧔꧕꧖꧗꧘꧙",
    "꧰꧱꧲꧳꧴꧵꧶꧷꧸꧹",
    "꯰꯱꯲꯳꯴꯵꯶꯷꯸꯹" >>

\* The value of each digit.
DigitMap ==
    [c \in UNION {{SubSeq(DigitRuns[r], d, d) : d \in 1..10} : r \in DOMAIN DigitRuns} |->
        (CHOOSE d \in 1..10 : \E r \in DOMAIN DigitRuns : SubSeq(DigitRuns[r], d, d) = c) - 1]

IsDigit(c) == c \in DOMAIN DigitMap
DigitVal(c) == DigitMap[c]

RECURSIVE digits_value(_)
digits_value(s) ==
    IF s = "" THEN 0
    ELSE 10 * digits_value(SubSeq(s, 1, Len(s) - 1)) + DigitVal(SubSeq(s, Len(s), Len(s)))

\* The digits of a numeral: decimal digits, with single underscores allowed
\* between two digits.
is_numeral(body) ==
    /\ body # ""
    /\ \A k \in 1..Len(body) :
          \/ IsDigit(SubSeq(body, k, k))
          \/ /\ SubSeq(body, k, k) = "_"
             /\ 1 < k /\ k < Len(body)
             /\ IsDigit(SubSeq(body, k - 1, k - 1))
             /\ IsDigit(SubSeq(body, k + 1, k + 1))

\* The numeral without its underscores.
RECURSIVE without_underscores(_)
without_underscores(body) ==
    IF body = "" THEN ""
    ELSE IF SubSeq(body, 1, 1) = "_" THEN without_underscores(SubSeq(body, 2, Len(body)))
    ELSE SubSeq(body, 1, 1) \o without_underscores(SubSeq(body, 2, Len(body)))

\* Mutant: a text that is no number counts as 0.
int_lenient(s) ==
    LET t == strip(s)
        signed == t # "" /\ SubSeq(t, 1, 1) \in {"-", "+"}
        body == IF signed THEN SubSeq(t, 2, Len(t)) ELSE t
        magnitude == digits_value(without_underscores(body))
    IN  IF is_numeral(body)
        THEN [ok |-> TRUE,
              val |-> IF signed /\ SubSeq(t, 1, 1) = "-" THEN 0 - magnitude ELSE magnitude]
        ELSE [ok |-> TRUE, val |-> 0]

\* int(s) for a str s: optional surrounding whitespace, an optional sign,
\* decimal digits with single underscores between them.
\* [ok |-> FALSE] stands for the ValueError int() raises.
int(s) ==
    LET t == strip(s)
        signed == t # "" /\ SubSeq(t, 1, 1) \in {"-", "+"}
        body == IF signed THEN SubSeq(t, 2, Len(t)) ELSE t
        magnitude == digits_value(without_underscores(body))
    IN  IF is_numeral(body)
        THEN [ok |-> TRUE,
              val |-> IF signed /\ SubSeq(t, 1, 1) = "-" THEN 0 - magnitude ELSE magnitude]
        ELSE [ok |-> FALSE]

\* int(request.form.get(key, default)) with an int default.
form_int(form, key, default) ==
    IF key \in DOMAIN form THEN int(form[key]) ELSE [ok |-> TRUE, val |-> default]

\* The form fields a POST /run request carries; a field left out takes its default.
Forms ==
    {EmptyDict}
    \cup {[company |-> c, lead_limit |-> n] :
             c \in {"SaaS"}, n \in {"2", " -1", "ten"}}
    \cup {[size_min |-> "1", size_max |-> "fifty", lead_limit |-> "1"]}
    \cup {[size_min |-> "1.5"]}
    \cup {[size_min |-> "\t1", size_max |-> "50\n", lead_limit |-> "1_0"],
          [lead_limit |-> "1__0"]}

\* ICPs of a direct call run_pipeline(icp, limit). The dataclass does not check
\* its field types: an ICP built with industry=None is accepted.
DirectICPs ==
    {ICP("CEO", "Agency", "New York", 1, 50, ind, "We book demos.") :
        ind \in {"Marketing", None}}

\* Limits of a direct call run_pipeline(icp, limit).
DirectLimits == {0 - 1, 0, 2}

\* Reply texts of the webhook requests.
ReplyTexts == {"sure, let's talk", "not interested, stop", "Unsubscribe me", "thanks"}

\* A JSON array that is not empty, such as ["u1"], where a text is expected:
\* truthy, and not hashable. No text a request carries equals it.
JsonArray == "<array>"

\* A JSON number other than 0 where a text is expected: truthy and hashable,
\* with no method lower. No text a request carries equals it.
JsonNumber == "<number>"

\* Text lead_id values of the webhook requests: the empty string, every id
\* handed out so far, and one that is never handed out.
LeadIds(s) == {""} \cup {uuid4(n) : n \in 0..(s - 1)} \cup {"u0"}

\* The JSON objects POST /webhook/reply receives; a key may be missing, and a
\* value may be of another JSON type than text.
Payloads(s) ==
    {[lead_id |-> l, message_text |-> m] : l \in LeadIds(s), m \in ReplyTexts}
    \cup {[lead_id |-> l] : l \in LeadIds(s)}
    \cup {[message_text |-> "thanks"], EmptyDict}
    \cup {[lead_id |-> JsonArray, message_text |-> "thanks"]}
    \cup {[lead_id |-> uuid4(n), message_text |-> m] :
                n \in 0..Min(s - 1, 0), m \in {JsonNumber, JsonArray}}

\* What request.get_json(force=True, silent=True) or {} returns (app.py:360):
\* the object of the body, or a JSON value that is no object and truthy (an
\* array here). A body that is no JSON, null or falsy gives {}.
Bodies(s) ==
    {[json |-> "object", data |-> d] : d \in Payloads(s)} \cup {[json |-> "array"]}

-----------------------------------------------------------------------------
(* State *)

NoReq == [kind |-> "none"]
NoResp == [kind |-> "none"]

\* The program after import: no ICP, no leads, no request in progress.
InitProgram ==
    /\ CURRENT_ICP = NoICP
    /\ LEADS = <<>>
    /\ heap = EmptyDict
    /\ seed = 0
    /\ pc = [t \in Threads |-> "idle"]
    /\ req = [t \in Threads |-> NoReq]
    /\ icp = [t \in Threads |-> NoICP]
    /\ limit = [t \in Threads |-> 0]
    /\ batch = [t \in Threads |-> <<>>]
    /\ idx = [t \in Threads |-> 0]
    /\ lead = [t \in Threads |-> ""]
    /\ resp = [t \in Threads |-> NoResp]
    /\ replies = 0

Init ==
    /\ InitProgram
    /\ arg = <<>>
    /\ out = <<>>

\* Mutant: the store is replaced by one holding the new key alone.
dict_set_replaces(keys, key) == <<key>>

\* LEADS[key] = value: a dict keeps the position of a key it already holds.
dict_set(keys, key) == IF key \in Range(keys) THEN keys ELSE Append(keys, key)

\* The heap with the objects of `leads` (a list of Lead records) added.
alloc(h, leads) ==
    [k \in DOMAIN h \cup {leads[j].id : j \in DOMAIN leads} |->
        IF \E j \in DOMAIN leads : leads[j].id = k
        THEN leads[CHOOSE j \in DOMAIN leads : leads[j].id = k]
        ELSE h[k]]

\* The heap without the objects `ids` no reference is left to.
free(h, ids) == [k \in DOMAIN h \ ids |-> h[k]]

-----------------------------------------------------------------------------
(* POST /run and run_pipeline *)

\* The handler of thread t ends with outcome r; its locals are gone.
Finish(t, r) ==
    /\ pc' = [pc EXCEPT ![t] = "idle"]
    /\ resp' = [resp EXCEPT ![t] = r]
    /\ req' = [req EXCEPT ![t] = NoReq]
    /\ icp' = [icp EXCEPT ![t] = NoICP]
    /\ limit' = [limit EXCEPT ![t] = 0]
    /\ batch' = [batch EXCEPT ![t] = <<>>]
    /\ idx' = [idx EXCEPT ![t] = 0]
    /\ lead' = [lead EXCEPT ![t] = ""]

\* The list comprehension or loop of a stage moves to its next lead, or the
\* run moves to the stage `next`.
Advance(t, next) ==
    IF idx[t] < Len(batch[t])
    THEN /\ idx' = [idx EXCEPT ![t] = idx[t] + 1]
         /\ pc' = pc
    ELSE /\ idx' = [idx EXCEPT ![t] = 1]
         /\ pc' = [pc EXCEPT ![t] = next]

\* The Lead object the running stage of thread t is at.
Current(t) == batch[t][idx[t]]

\* run_pipeline(i, lim) is entered: find_leads builds the batch (app.py:78).
StartPipeline(t, i, lim) ==
    LET leads == find_leads(i, lim, seed)
    IN  /\ seed + Len(leads) <= MaxLeads
        /\ heap' = alloc(heap, leads)
        /\ seed' = seed + Len(leads)
        /\ icp' = [icp EXCEPT ![t] = i]
        /\ limit' = [limit EXCEPT ![t] = lim]
        /\ batch' = [batch EXCEPT ![t] = [k \in 1..Len(leads) |-> leads[k].id]]
        /\ idx' = [idx EXCEPT ![t] = 1]
        /\ pc' = [pc EXCEPT ![t] = IF Len(leads) = 0 THEN "ret" ELSE "enrich"]

\* An exception leaves run_pipeline: nothing catches it, the request ends in
\* an error and the batch is dropped with its unstored objects.
Abort(t, stage) ==
    /\ Finish(t, [kind |-> "error", status |-> 500, raised |-> "AttributeError",
                  stage |-> stage])
    /\ heap' = free(heap, Range(batch[t]) \ Range(LEADS))

\* The three int() calls of run() succeed on the form (app.py:301, 302, 308).
form_ok(form) ==
    /\ form_int(form, "size_min", 1).ok
    /\ form_int(form, "size_max", 50).ok
    /\ form_int(form, "lead_limit", 10).ok

\* The number of leads the run of a form sources (none when run() raises).
form_leads(form) ==
    IF form_ok(form)
    THEN Len(SlicePrefix(sample_companies, form_int(form, "lead_limit", 10).val))
    ELSE 0

\* run(): a POST /run request arrives with its form (app.py:294-296).
RunRequest(t) ==
    /\ pc[t] = "idle"
    /\ \E form \in Forms :
         /\ seed + form_leads(form) <= MaxLeads
         /\ req' = [req EXCEPT ![t] = [kind |-> "run", form |-> form]]
    /\ pc' = [pc EXCEPT ![t] = "run_form"]
    /\ resp' = [resp EXCEPT ![t] = NoResp]
    /\ UNCHANGED <<CURRENT_ICP, LEADS, heap, seed, icp, limit, batch, idx, lead, replies,
                   arg, out>>

\* The ICP run() builds from the form fields (app.py:298-318); size_min and
\* size_max are the parsed numbers.
form_icp(form, size_min, size_max) ==
    ICP(Get(form, "job_title", "CEO"),
        Get(form, "company", "Digital Marketing Agency"),
        Get(form, "location", "New York"),
        size_min, size_max,
        Get(form, "industry", "Marketing"),
        Get(form, "value_prop",
            "We build AI-powered outbound machines that create a consistent flow of qualified demos."))

\* run(): the form is read, CURRENT_ICP is set (app.py:298-318). A malformed
\* number raises ValueError before anything is assigned; nothing catches it.
RunForm(t) ==
    /\ pc[t] = "run_form"
    /\ LET form == req[t].form
           size_min == form_int(form, "size_min", 1)
           size_max == form_int(form, "size_max", 50)
           lead_limit == form_int(form, "lead_limit", 10)
       IN  IF size_min.ok /\ size_max.ok /\ lead_limit.ok
           THEN /\ CURRENT_ICP' = form_icp(form, size_min.val, size_max.val)
                /\ limit' = [limit EXCEPT ![t] = lead_limit.val]
                /\ pc' = [pc EXCEPT ![t] = "run_call"]
                /\ UNCHANGED <<req, icp, batch, idx, lead, resp>>
           ELSE /\ Finish(t, [kind |-> "error", status |-> 500,
                              raised |-> "ValueError", stage |-> "run"])
                /\ UNCHANGED CURRENT_ICP
    /\ UNCHANGED <<LEADS, heap, seed, replies, arg, out>>

\* run(): run_pipeline(CURRENT_ICP, limit=lead_limit) is called (app.py:320);
\* the argument is the global as it is now.
RunCall(t) ==
    /\ pc[t] = "run_call"
    /\ StartPipeline(t, CURRENT_ICP, limit[t])
    /\ UNCHANGED <<CURRENT_ICP, LEADS, req, lead, resp, replies, arg, out>>

\* run_pipeline(icp, limit) called directly.
PipelineCall(t) ==
    /\ pc[t] = "idle"
    /\ \E i \in DirectICPs, lim \in DirectLimits :
         /\ StartPipeline(t, i, lim)
         /\ req' = [req EXCEPT ![t] = [kind |-> "pipeline", icp |-> i, limit |-> lim]]
    /\ resp' = [resp EXCEPT ![t] = NoResp]
    /\ UNCHANGED <<CURRENT_ICP, LEADS, lead, replies, arg, out>>

\* Mutant: a lead is stored as soon as it is enriched.
EnrichStep_stores(t) ==
    /\ pc[t] = "enrich"
    /\ heap' = [heap EXCEPT ![Current(t)] = enrich_lead(@)]
    /\ LEADS' = dict_set(LEADS, heap[Current(t)].id)
    /\ Advance(t, "qualify")
    /\ UNCHANGED <<CURRENT_ICP, seed, req, icp, limit, batch, lead, resp,
                   replies, arg, out>>

\* enriched = [enrich_lead(lead) for lead in leads]: one call (app.py:79).
EnrichStep(t) ==
    /\ pc[t] = "enrich"
    /\ heap' = [heap EXCEPT ![Current(t)] = enrich_lead(@)]
    /\ Advance(t, "qualify")
    /\ UNCHANGED <<CURRENT_ICP, LEADS, seed, req, icp, limit, batch, lead, resp,
                   replies, arg, out>>

\* qualified = [qualify_lead(lead, icp) for lead in enriched]: one call (app.py:80).
QualifyStep(t) ==
    /\ pc[t] = "qualify"
    /\ IF qualify_raises(heap[Current(t)], icp[t])
       THEN Abort(t, "qualify_lead")
       ELSE /\ heap' = [heap EXCEPT ![Current(t)] = qualify_lead(@, icp[t])]
            /\ Advance(t, "generate")
            /\ UNCHANGED <<req, icp, limit, batch, lead, resp>>
    /\ UNCHANGED <<CURRENT_ICP, LEADS, seed, replies, arg, out>>

\* messaged = [generate_sequences_for_lead(lead, icp) for lead in qualified]
\* (app.py:81): one call up to its first assignment, lead.channel_sequences =
\* ... (app.py:238-241). The call raises at icp.industry.lower() (app.py:196).
GenerateStep(t) ==
    /\ pc[t] = "generate"
    /\ IF generate_raises(heap[Current(t)], icp[t])
       THEN Abort(t, "generate_sequences_for_lead")
       ELSE /\ heap' = [heap EXCEPT ![Current(t)].channel_sequences =
                                        channel_sequences(heap[Current(t)], icp[t])]
            /\ pc' = [pc EXCEPT ![t] = "generate_status"]
            /\ UNCHANGED <<req, icp, limit, batch, idx, lead, resp>>
    /\ UNCHANGED <<CURRENT_ICP, LEADS, seed, replies, arg, out>>

\* Mutant: the call returns without the status assignment.
GenerateStatus_skipped(t) ==
    /\ pc[t] = "generate_status"
    /\ IF idx[t] < Len(batch[t])
       THEN /\ idx' = [idx EXCEPT ![t] = idx[t] + 1]
            /\ pc' = [pc EXCEPT ![t] = "generate"]
       ELSE /\ idx' = [idx EXCEPT ![t] = 1]
            /\ pc' = [pc EXCEPT ![t] = "persist"]
    /\ UNCHANGED <<CURRENT_ICP, LEADS, heap, seed, req, icp, limit, batch, lead, resp,
                   replies, arg, out>>

\* generate_sequences_for_lead: lead.status = "messaged" and the return
\* (app.py:242-243); the comprehension goes on with the next lead.
GenerateStatus(t) ==
    /\ pc[t] = "generate_status"
    /\ heap' = [heap EXCEPT ![Current(t)].status = "messaged"]
    /\ IF idx[t] < Len(batch[t])
       THEN /\ idx' = [idx EXCEPT ![t] = idx[t] + 1]
            /\ pc' = [pc EXCEPT ![t] = "generate"]
       ELSE /\ idx' = [idx EXCEPT ![t] = 1]
            /\ pc' = [pc EXCEPT ![t] = "persist"]
    /\ UNCHANGED <<CURRENT_ICP, LEADS, seed, req, icp, limit, batch, lead, resp,
                   replies, arg, out>>

\* for lead in messaged: LEADS[lead.id] = lead: one assignment (app.py:87-88).
PersistStep(t) ==
    /\ pc[t] = "persist"
    /\ LEADS' = dict_set(LEADS, heap[Current(t)].id)
    /\ Advance(t, "ret")
    /\ UNCHANGED <<CURRENT_ICP, heap, seed, req, icp, limit, batch, lead, resp,
                   replies, arg, out>>

\* return messaged (app.py:90); run() then flashes the count and redirects
\* (app.py:322-323).
RunReturn(t) ==
    /\ pc[t] = "ret"
    /\ Finish(t, IF req[t].kind = "run"
                 THEN [kind |-> "redirect", status |-> 302,
                       flash |-> "Pipeline completed. " \o str(Len(batch[t]))
                                 \o " leads sourced & processed."]
                 ELSE [kind |-> "returned", leads |-> batch[t]])
    /\ UNCHANGED <<CURRENT_ICP, LEADS, heap, seed, replies, arg, out>>

-----------------------------------------------------------------------------
(* POST /webhook/reply *)

\* `not lead_id or lead_id not in LEADS` (app.py:364); keys are the keys of LEADS.
lead_not_found(lead_id, keys) == Falsy(lead_id) \/ lead_id \notin Range(keys)

\* `lead_id not in LEADS` raises TypeError: the truthy lead_id is not hashable.
lookup_raises(lead_id) == ~Falsy(lead_id) /\ lead_id = JsonArray

\* detect_reply_and_sentiment raises AttributeError at message_text.lower()
\* (app.py:264): the message is no text.
detect_raises(message_text) == message_text \in {None, JsonNumber, JsonArray}

\* webhook_reply(): the JSON body is read and lead_id and message_text are
\* taken from it (app.py:360-362). data.get raises AttributeError when the
\* body is no object; nothing catches it.
WebhookRequest(t) ==
    /\ pc[t] = "idle"
    /\ \E body \in Bodies(seed) :
         IF body.json = "object"
         THEN /\ \/ lead_not_found(Get(body.data, "lead_id", None), LEADS)
                 \/ replies < MaxReplies
              /\ req' = [req EXCEPT ![t] = [kind |-> "webhook", data |-> body.data]]
              /\ pc' = [pc EXCEPT ![t] = "wh_lookup"]
              /\ resp' = [resp EXCEPT ![t] = NoResp]
              /\ UNCHANGED <<icp, limit, batch, idx, lead>>
         ELSE Finish(t, [kind |-> "error", status |-> 500, raised |-> "AttributeError",
                         stage |-> "webhook_reply"])
    /\ UNCHANGED <<CURRENT_ICP, LEADS, heap, seed, replies, arg, out>>

\* webhook_reply(): the lead is looked up; an unknown id ends the request
\* with 404, an id that cannot be hashed with an uncaught TypeError
\* (app.py:364-367).
WebhookLookup(t) ==
    /\ pc[t] = "wh_lookup"
    /\ LET lead_id == Get(req[t].data, "lead_id", None)
       IN  IF lookup_raises(lead_id)
           THEN /\ Finish(t, [kind |-> "error", status |-> 500, raised |-> "TypeError",
                              stage |-> "webhook_reply"])
                /\ UNCHANGED replies
           ELSE IF lead_not_found(lead_id, LEADS)
           THEN /\ Finish(t, [kind |-> "json", status |-> 404,
                              body |-> [error |-> "Lead not found"]])
                /\ UNCHANGED replies
           ELSE /\ replies < MaxReplies
                /\ replies' = replies + 1
                /\ lead' = [lead EXCEPT ![t] = lead_id]
                /\ pc' = [pc EXCEPT ![t] = "wh_sentiment"]
                /\ UNCHANGED <<req, icp, limit, batch, idx, resp>>
    /\ UNCHANGED <<CURRENT_ICP, LEADS, heap, seed, arg, out>>

\* Mutant: the sentiment assignment is missing.
WebhookSentiment_skipped(t) ==
    /\ pc[t] = "wh_sentiment"
    /\ IF detect_raises(Get(req[t].data, "message_text", ""))
       THEN Finish(t, [kind |-> "error", status |-> 500, raised |-> "AttributeError",
                         stage |-> "detect_reply_and_sentiment"])
       ELSE /\ pc' = [pc EXCEPT ![t] = "wh_status"]
            /\ UNCHANGED <<req, icp, limit, batch, idx, lead, resp>>
    /\ UNCHANGED <<CURRENT_ICP, LEADS, heap, seed, replies, arg, out>>

\* Mutant: a sentiment already set is kept.
WebhookSentiment_keeps_first(t) ==
    /\ pc[t] = "wh_sentiment"
    /\ LET message_text == Get(req[t].data, "message_text", "")
           sentiment_info == detect_reply_and_sentiment(message_text)
       IN  IF detect_raises(message_text)
           THEN /\ Finish(t, [kind |-> "error", status |-> 500, raised |-> "AttributeError",
                              stage |-> "detect_reply_and_sentiment"])
                /\ UNCHANGED heap
           ELSE /\ heap' = IF heap[lead[t]].sentiment = ""
                           THEN [heap EXCEPT ![lead[t]].sentiment = sentiment_info.sentiment]
                           ELSE heap
                /\ pc' = [pc EXCEPT ![t] = "wh_status"]
                /\ UNCHANGED <<req, icp, limit, batch, idx, lead, resp>>
    /\ UNCHANGED <<CURRENT_ICP, LEADS, seed, replies, arg, out>>

\* lead.sentiment = detect_reply_and_sentiment(message_text)["sentiment"]
\* (app.py:368-369); the call raises on a message that is no text, before
\* anything is assigned.
WebhookSentiment(t) ==
    /\ pc[t] = "wh_sentiment"
    /\ LET message_text == Get(req[t].data, "message_text", "")
           sentiment_info == detect_reply_and_sentiment(message_text)
       IN  IF detect_raises(message_text)
           THEN /\ Finish(t, [kind |-> "error", status |-> 500, raised |-> "AttributeError",
                              stage |-> "detect_reply_and_sentiment"])
                /\ UNCHANGED heap
           ELSE /\ heap' = [heap EXCEPT ![lead[t]].sentiment = sentiment_info.sentiment]
                /\ pc' = [pc EXCEPT ![t] = "wh_status"]
                /\ UNCHANGED <<req, icp, limit, batch, idx, lead, resp>>
    /\ UNCHANGED <<CURRENT_ICP, LEADS, seed, replies, arg, out>>

\* Mutant: the status assignment is missing.
WebhookStatus_skipped(t) ==
    /\ pc[t] = "wh_status"
    /\ pc' = [pc EXCEPT ![t] = "wh_resp"]
    /\ UNCHANGED <<CURRENT_ICP, LEADS, heap, seed, req, icp, limit, batch, idx, lead, resp,
                   replies, arg, out>>

\* Mutant: the reply also stops the sequences of the lead.
WebhookStatus_drops_sequences(t) ==
    /\ pc[t] = "wh_status"
    /\ heap' = [heap EXCEPT ![lead[t]].status = "replied",
                            ![lead[t]].channel_sequences = EmptyDict]
    /\ pc' = [pc EXCEPT ![t] = "wh_resp"]
    /\ UNCHANGED <<CURRENT_ICP, LEADS, seed, req, icp, limit, batch, idx, lead, resp,
                   replies, arg, out>>

\* lead.status = "replied" (app.py:370).
WebhookStatus(t) ==
    /\ pc[t] = "wh_status"
    /\ heap' = [heap EXCEPT ![lead[t]].status = "replied"]
    /\ pc' = [pc EXCEPT ![t] = "wh_resp"]
    /\ UNCHANGED <<CURRENT_ICP, LEADS, seed, req, icp, limit, batch, idx, lead, resp,
                   replies, arg, out>>

\* return jsonify({"ok": True, "sentiment": lead.sentiment}) (app.py:373).
WebhookRespond(t) ==
    /\ pc[t] = "wh_resp"
    /\ Finish(t, [kind |-> "json", status |-> 200,
                  body |-> [ok |-> TRUE, sentiment |-> heap[lead[t]].sentiment]])
    /\ UNCHANGED <<CURRENT_ICP, LEADS, heap, seed, replies, arg, out>>

-----------------------------------------------------------------------------
(* GET / *)

\* The list xs back to front.
reversed(xs) == [k \in 1..Len(xs) |-> xs[Len(xs) + 1 - k]]

\* x put into the ascending list xs behind every element whose key is not
\* greater: the step of a stable sort.
RECURSIVE insort(_, _, _)
insort(xs, x, key) ==
    IF xs = <<>> THEN <<x>>
    ELSE IF key[x] < key[Head(xs)] THEN <<x>> \o xs
    ELSE <<Head(xs)>> \o insort(Tail(xs), x, key)

\* list.sort(): ascending and stable.
RECURSIVE stable_sort(_, _)
stable_sort(xs, key) ==
    IF xs = <<>> THEN <<>>
    ELSE insort(stable_sort(SubSeq(xs, 1, Len(xs) - 1), key), xs[Len(xs)], key)

\* Mutant: the ascending result is reversed, and the ties with it.
sorted_then_reversed(xs, key, reverse) ==
    IF reverse THEN reversed(stable_sort(xs, key)) ELSE stable_sort(xs, key)

\* sorted(xs, key=..., reverse=...): with reverse the list is reversed, sorted
\* ascending and stable, and reversed again, which keeps equal keys in their
\* original order.
sorted(xs, key, reverse) ==
    IF reverse THEN reversed(stable_sort(reversed(xs), key)) ELSE stable_sort(xs, key)

\* index(): the stored leads sorted by qualification_score, highest first, are
\* handed to the template with the current ICP (app.py:279-291). LEADS.values()
\* is in insertion order.
Index(t) ==
    /\ pc[t] = "idle"
    /\ LET key == [id \in Range(LEADS) |-> heap[id].qualification_score]
           leads_sorted == sorted(LEADS, key, TRUE)
       IN  Finish(t, [kind |-> "html", status |-> 200, icp |-> CURRENT_ICP,
                      leads |-> leads_sorted])
    /\ UNCHANGED <<CURRENT_ICP, LEADS, heap, seed, replies, arg, out>>

-----------------------------------------------------------------------------
(* Specifications *)

Step(t) ==
    \/ RunRequest(t)
    \/ RunForm(t)
    \/ RunCall(t)
    \/ PipelineCall(t)
    \/ EnrichStep(t)
    \/ QualifyStep(t)
    \/ GenerateStep(t)
    \/ GenerateStatus(t)
    \/ PersistStep(t)
    \/ RunReturn(t)
    \/ WebhookRequest(t)
    \/ WebhookLookup(t)
    \/ WebhookSentiment(t)
    \/ WebhookStatus(t)
    \/ WebhookRespond(t)
    \/ Index(t)

\* Requests served one at a time (the single-threaded execution the program
\* is written for).
Next == \E t \in SeqThreads : Step(t)

Spec == Init /\ [][Next]_vars

-----------------------------------------------------------------------------
(* Requests served by concurrent threads *)

\* The forms of the POST /run requests that run side by side.
ConcForms == {EmptyDict, [company |-> "SaaS", lead_limit |-> "2"]}

\* The bodies of the POST /webhook/reply requests that run side by side: all
\* address the first lead.
ConcPayloads ==
    {[lead_id |-> uuid4(0), message_text |-> m] :
        m \in {"sure, let's talk", "Unsubscribe me"}}

\* One step of the handler thread t runs; app.run serves each request in a
\* thread of its own, and the threads share CURRENT_ICP, LEADS and the Lead
\* objects.
ConcStep(t) ==
    \/ RunRequest(t) /\ req'[t].form \in ConcForms
    \/ RunForm(t)
    \/ RunCall(t)
    \/ EnrichStep(t)
    \/ QualifyStep(t)
    \/ GenerateStep(t)
    \/ GenerateStatus(t)
    \/ PersistStep(t)
    \/ RunReturn(t)
    \/ WebhookRequest(t) /\ pc'[t] = "wh_lookup" /\ req'[t].data \in ConcPayloads
    \/ WebhookLookup(t)
    \/ WebhookSentiment(t)
    \/ WebhookStatus(t)
    \/ WebhookRespond(t)

NextConc == \E t \in Threads : ConcStep(t)

SpecConc == Init /\ [][NextConc]_vars

-----------------------------------------------------------------------------
(* Call harness of detect_reply_and_sentiment *)

\* Pieces of reply texts: keywords of both lists in mixed case, pieces that
\* form a keyword only across a boundary ("ye" + "s"), and neutral text.
Tokens == {"not interested", ", stop", "sure", ", let's talk", "YES", "no",
           "w", "ye", "s", "thanks "}

\* The texts made of at most n tokens.
RECURSIVE Messages(_)
Messages(n) ==
    IF n = 0 THEN {""}
    ELSE Messages(n - 1) \cup {m \o tk : m \in Messages(n - 1), tk \in Tokens}

InitSentiment ==
    /\ InitProgram
    /\ arg \in {<<m>> : m \in Messages(MaxTokens)}
    /\ out = <<>>

\* detect_reply_and_sentiment(arg) is called.
Classify ==
    /\ out = <<>>
    /\ out' = <<detect_reply_and_sentiment(arg[1])>>
    /\ UNCHANGED <<CURRENT_ICP, LEADS, heap, seed, pc, req, icp, limit, batch, idx, lead,
                   resp, replies, arg>>

NextSentiment == Classify

SpecSentiment == InitSentiment /\ [][NextSentiment]_vars

-----------------------------------------------------------------------------
(* Call harness of qualify_lead *)

\* Leads and ICPs that make each of the four rules hold and fail.
QualifyLeads ==
    {[Lead("q1", "Ann", "Example", jt, "Acme Media", loc)
        EXCEPT !.enrichment = e, !.status = "enriched"] :
        jt \in {"CEO & Founder", "Engineer", "ÉDITEUR"},
        loc \in {"New York, NY", "Berlin"},
        e \in {EmptyDict} \cup {[company_size |-> z] : z \in {"10-25", "51-200", "11-50", "1-50", "101-500"}}}

QualifyICPs ==
    {ICP(jt, co, loc, 1, 50, "Marketing", "We book demos.") :
        jt \in {"ceo", "CTO", "", "éditeur"},
        co \in {"Digital Marketing Agency", "Marketing", "SaaS"},
        loc \in {"new york", "London"}}

InitQualify ==
    /\ InitProgram
    /\ arg \in {<<l, i>> : l \in QualifyLeads, i \in QualifyICPs}
    /\ out = <<>>

\* qualify_lead(lead, icp) is called.
Qualify ==
    /\ out = <<>>
    /\ out' = <<qualify_lead(arg[1], arg[2])>>
    /\ UNCHANGED <<CURRENT_ICP, LEADS, heap, seed, pc, req, icp, limit, batch, idx, lead,
                   resp, replies, arg>>

NextQualify == Qualify

SpecQualify == InitQualify /\ [][NextQualify]_vars

-----------------------------------------------------------------------------
(* Properties *)

\* Where a thread stands while it runs the pipeline.
RunPcs ==
    {"run_form", "run_call", "enrich", "qualify", "generate", "generate_status",
     "persist", "ret"}

\* Position of a status in the chain (1..5).
StatusRank(st) == CHOOSE k \in DOMAIN StatusChain : StatusChain[k] = st

\* A reply text holds one of `words`, whatever the case of its letters.
HasKeyword(words, m) ==
    \E w \in Range(words) : \E a \in 1..Len(m) : \E b \in a..Len(m) :
        lower(SubSeq(m, a, b)) = w

\* C1: run_pipeline(icp, limit) returns at most `limit` leads, each with status
\* 'messaged' and non-empty channel_sequences. Stated at the return statement,
\* where batch is the list returned.
C1_ReturnsAtMostLimit ==
    \A t \in Threads :
        pc[t] = "ret" =>
            /\ Len(batch[t]) <= limit[t]
            /\ \A k \in DOMAIN batch[t] :
                  /\ heap[batch[t][k]].status = "messaged"
                  /\ DOMAIN heap[batch[t][k]].channel_sequences # {}

\* C2: every change of a lead's status goes from a state of the chain
\* new -> enriched -> qualified -> messaged -> replied to its immediate
\* successor, and a lead is created with status new.
C2_StatusStepsForward ==
    [][\A id \in DOMAIN heap' :
          IF id \in DOMAIN heap
          THEN \/ heap'[id].status = heap[id].status
               \/ StatusRank(heap'[id].status) = StatusRank(heap[id].status) + 1
          ELSE heap'[id].status = "new"]_vars

\* C2 witness: a lead has been taken through the whole chain, and a request
\* is about to reply to a lead that is already replied.
C2_Witness ==
    \E t \in SeqThreads :
        /\ pc[t] = "wh_sentiment"
        /\ heap[lead[t]].status = "replied"

\* C3, as stated: for every lead, in a running batch or in the store,
\* channel_sequences is non-empty exactly when the status is messaged or
\* replied. Between the two assignments of generate_sequences_for_lead the
\* lead of the call has sequences and the status qualified.
C3_SequencesIffMessaged ==
    \A id \in DOMAIN heap :
        (DOMAIN heap[id].channel_sequences # {})
            <=> (heap[id].status \in {"messaged", "replied"})

\* The lead id is inside a call of generate_sequences_for_lead, between the
\* assignment of channel_sequences and the assignment of status.
InGenerateCall(id) ==
    \E t \in Threads : pc[t] = "generate_status" /\ Current(t) = id

\* C3, amended: every stored lead, and every batch lead outside a call of
\* generate_sequences_for_lead, has non-empty channel_sequences exactly when
\* its status is messaged or replied; the lead inside such a call is not
\* stored, has its sequences and is still qualified.
C3_SequencesIffMessagedOutsideCall ==
    \A id \in DOMAIN heap :
        IF InGenerateCall(id)
        THEN /\ id \notin Range(LEADS)
             /\ DOMAIN heap[id].channel_sequences # {}
             /\ heap[id].status = "qualified"
        ELSE (DOMAIN heap[id].channel_sequences # {})
                <=> (heap[id].status \in {"messaged", "replied"})

\* C3 witness: inside the second call of the generation stage: the first lead
\* of the batch is messaged, the second has its sequences and is still
\* qualified, and the store holds a replied lead.
C3_Witness ==
    \E t \in SeqThreads :
        /\ pc[t] = "generate_status"
        /\ idx[t] = 2
        /\ heap[batch[t][1]].status = "messaged"
        /\ heap[batch[t][2]].status = "qualified"
        /\ DOMAIN heap[batch[t][2]].channel_sequences # {}
        /\ \E id \in Range(LEADS) : heap[id].status = "replied"

\* C4: the reply "not interested, stop" is classified negative: once the
\* webhook has stored the sentiment of that text, the sentiment is negative.
C4_NotInterestedStopNegative ==
    \A t \in Threads :
        (/\ pc[t] \in {"wh_status", "wh_resp"}
         /\ Get(req[t].data, "message_text", "") = "not interested, stop")
            => heap[lead[t]].sentiment = "negative"

\* C5: a text with a positive and a negative keyword is classified positive;
\* negative is returned only with a negative and no positive keyword, neutral
\* only with neither.
C5_PositivePrecedence ==
    out # <<>> =>
        LET pos == HasKeyword(positive_words, arg[1])
            neg == HasKeyword(negative_words, arg[1])
            s == out[1].sentiment
        IN  /\ s \in {"positive", "negative", "neutral"}
            /\ (pos /\ neg) => s = "positive"
            /\ s = "negative" => (neg /\ ~pos)
            /\ s = "neutral" => (~pos /\ ~neg)

\* C5 witness: a text with keywords of both lists has been classified.
C5_Witness ==
    /\ out # <<>>
    /\ arg[1] = "not interested, stop"
    /\ HasKeyword(positive_words, arg[1])
    /\ HasKeyword(negative_words, arg[1])

\* C6: a webhook call whose lead_id is missing, empty or not a key of the
\* store ends with 404 and leaves the stored ids, every stored lead and the
\* current ICP as they were. A lead_id that is a JSON array is no key of the
\* store, and the call ends with an uncaught TypeError.
C6_UnknownLeadNotFound ==
    [][\A t \in Threads :
          (/\ pc[t] = "wh_lookup"
           /\ pc'[t] # "wh_lookup"
           /\ \/ "lead_id" \notin DOMAIN req[t].data
              \/ req[t].data.lead_id = ""
              \/ req[t].data.lead_id \notin Range(LEADS))
          => /\ pc'[t] = "idle"
             /\ resp'[t].kind = "json"
             /\ resp'[t].status = 404
             /\ LEADS' = LEADS
             /\ heap' = heap
             /\ CURRENT_ICP' = CURRENT_ICP]_vars

\* C7: when a webhook call for a stored lead completes, the lead's status is
\* replied and its sentiment, which the response returns, is the
\* classification of the call's message_text: one of positive, neutral,
\* negative, and positive for "sure, let's talk".
C7_ReplySetsStatusAndSentiment ==
    [][\A t \in Threads :
          (pc[t] = "wh_resp" /\ pc'[t] = "idle")
          => LET l == heap'[lead[t]]
                 m == Get(req[t].data, "message_text", "")
             IN  /\ l.status = "replied"
                 /\ l.sentiment = detect_reply_and_sentiment(m).sentiment
                 /\ l.sentiment \in {"positive", "neutral", "negative"}
                 /\ (m = "sure, let's talk") => (l.sentiment = "positive")
                 /\ resp'[t].status = 200
                 /\ resp'[t].body.sentiment = l.sentiment]_vars

\* C7 witness: a reply "sure, let's talk" to a stored lead has been served.
C7_Witness ==
    \E t \in SeqThreads :
        /\ pc[t] = "wh_resp"
        /\ req[t].data = [lead_id |-> lead[t], message_text |-> "sure, let's talk"]
        /\ heap[lead[t]].sentiment = "positive"

\* C8: when a per-lead stage call fails for a lead, that lead is dropped from
\* the batch and the run goes on with the other leads.
C8_StageFailureDropsLead ==
    [][\A t \in Threads :
          (\/ pc[t] = "qualify" /\ qualify_raises(heap[Current(t)], icp[t])
           \/ pc[t] = "generate" /\ generate_raises(heap[Current(t)], icp[t]))
          => /\ pc'[t] \in RunPcs
             /\ batch'[t] = [k \in 1..(Len(batch[t]) - 1) |->
                                IF k < idx[t] THEN batch[t][k] ELSE batch[t][k + 1]]]_vars

\* C9: qualify_lead sets qualification_score to a value in 0..10.
C9_ScoreInRange ==
    out # <<>> => out[1].qualification_score \in 0..10

\* C9 witness: qualify_lead has scored a lead that meets all four rules.
C9_Witness ==
    /\ out # <<>>
    /\ out[1].status = "qualified"
    /\ out[1].qualification_score = 10

\* C10: a run never removes a stored id nor changes a lead stored before its
\* steps, and when it returns every returned lead is stored under its own id.
C10_RunKeepsStore ==
    [][/\ \A k \in DOMAIN LEADS : k \in DOMAIN LEADS' /\ LEADS'[k] = LEADS[k]
       /\ \A t \in Threads :
             (pc[t] \in RunPcs \/ pc'[t] \in RunPcs)
             => \A id \in Range(LEADS) : heap'[id] = heap[id]
       /\ \A t \in Threads :
             (pc[t] = "ret" /\ pc'[t] = "idle")
             => \A k \in DOMAIN batch[t] :
                   /\ batch[t][k] \in Range(LEADS')
                   /\ heap'[batch[t][k]].id = batch[t][k]]_vars

\* C10 witness: a run is about to return its leads into a store that already
\* held a replied lead of an earlier run.
C10_Witness ==
    \E t \in SeqThreads :
        /\ pc[t] = "ret"
        /\ batch[t] # <<>>
        /\ Len(LEADS) > Len(batch[t])
        /\ \E id \in Range(LEADS) : heap[id].status = "replied"

\* The place of x in the list xs.
IndexOf(xs, x) == CHOOSE k \in DOMAIN xs : xs[k] = x

\* C11: the listing of the index view holds every stored lead once, ordered by
\* qualification_score descending, and leads with equal scores are in the
\* order of the store.
C11_ListingSortedStable ==
    \A t \in Threads :
        resp[t].kind = "html"
        => LET ls == resp[t].leads
           IN  /\ Len(ls) = Len(LEADS)
               /\ Range(ls) = Range(LEADS)
               /\ \A i, j \in DOMAIN ls :
                     i < j =>
                        /\ heap[ls[i]].qualification_score >= heap[ls[j]].qualification_score
                        /\ (heap[ls[i]].qualification_score = heap[ls[j]].qualification_score)
                              => IndexOf(LEADS, ls[i]) < IndexOf(LEADS, ls[j])

\* C11 witness: a listing that moved a later lead of higher score ahead of
\* earlier leads and holds two leads of equal score.
C11_Witness ==
    \E t \in SeqThreads :
        /\ resp[t].kind = "html"
        /\ resp[t].leads # LEADS
        /\ \E i, j \in DOMAIN resp[t].leads :
              /\ i < j
              /\ heap[resp[t].leads[i]].qualification_score
                    = heap[resp[t].leads[j]].qualification_score

\* C12: when no request is in progress, every lead has a sentiment (one of
\* positive, neutral, negative) if and only if its status is replied.
C12_SentimentIffReplied ==
    (\A t \in Threads : pc[t] = "idle")
    => \A id \in DOMAIN heap :
          /\ (heap[id].sentiment # "") <=> (heap[id].status = "replied")
          /\ heap[id].sentiment \in {"", "positive", "neutral", "negative"}

\* C12 witness: with no request in progress the store holds a replied lead
\* with a sentiment next to a messaged lead without one.
C12_Witness ==
    /\ \A t \in Threads : pc[t] = "idle"
    /\ \E id \in Range(LEADS) :
          heap[id].status = "replied" /\ heap[id].sentiment = "negative"
    /\ \E id \in Range(LEADS) :
          heap[id].status = "messaged" /\ heap[id].sentiment = ""

\* The stages of run_pipeline.
StagePcs == {"enrich", "qualify", "generate", "generate_status", "persist", "ret"}

\* C13: every stage of the run of a POST /run request works with the ICP
\* built from the form of that request, also when /run requests interleave.
C13_RunUsesOwnICP ==
    \A t \in Threads :
        (req[t].kind = "run" /\ pc[t] \in StagePcs)
        => icp[t] = form_icp(req[t].form,
                             form_int(req[t].form, "size_min", 1).val,
                             form_int(req[t].form, "size_max", 50).val)

\* The classification of the message of the webhook call of thread t.
OwnSentiment(t) ==
    detect_reply_and_sentiment(Get(req[t].data, "message_text", "")).sentiment

\* C14: with interleaving webhook calls, the sentiment of a stored lead is
\* what the last write left: every write of a call leaves the classification
\* of that call's message, nothing else changes a stored sentiment, a status
\* replied stays, and the lead of a call that completes is replied.
C14_LastSentimentWriteWins ==
    [][/\ \A t \in Threads :
             (pc[t] = "wh_sentiment" /\ pc'[t] = "wh_status")
             => heap'[lead[t]].sentiment = OwnSentiment(t)
       /\ \A id \in Range(LEADS) :
             /\ (heap'[id].sentiment # heap[id].sentiment)
                   => \E t \in Threads :
                         pc[t] = "wh_sentiment" /\ pc'[t] = "wh_status" /\ lead[t] = id
             /\ (heap[id].status = "replied") => (heap'[id].status = "replied")
       /\ \A t \in Threads :
             (pc[t] = "wh_resp" /\ pc'[t] = "idle")
             => heap'[lead[t]].status = "replied"]_vars

\* C14 witness: two calls for the same lead with messages of different
\* classes have both written, and the sentiment is that of the second writer
\* while the first has not yet answered.
C14_Witness ==
    \E t, u \in Threads :
        /\ t # u
        /\ pc[t] = "wh_resp"
        /\ pc[u] \in {"wh_status", "wh_resp"}
        /\ lead[t] = lead[u]
        /\ OwnSentiment(t) # OwnSentiment(u)
        /\ heap[lead[t]].sentiment = OwnSentiment(u)
        /\ heap[lead[t]].status = "replied"

\* C17: the response of a webhook call for a stored lead returns the
\* classification of the call's own message_text, also when another call for
\* the same lead interleaves.
C17_ResponseOwnSentiment ==
    [][\A t \in Threads :
          (pc[t] = "wh_resp" /\ pc'[t] = "idle")
          => /\ resp'[t].status = 200
             /\ resp'[t].body.sentiment = OwnSentiment(t)]_vars

\* The size bands that earn the company-size points.
SizeWhitelist == {"1-50", "10-25"}

\* C15: the score of qualify_lead is the sum, capped at 10, of the points of
\* the rules that hold: job title +3, company category +2, location +2, and
\* +3 only when the enrichment provides a company size of the whitelist.
C15_ScoreIsRuleSum ==
    out # <<>>
    => LET l == arg[1]
           i == arg[2]
           title == In(lower(i.job_title), lower(l.job_title))
           category == In(lower(i.company), "digital marketing agency")
           location == In(lower(i.location), lower(l.location))
           size == /\ "company_size" \in DOMAIN l.enrichment
                   /\ l.enrichment["company_size"] \in SizeWhitelist
       IN  out[1].qualification_score =
              Min((IF title THEN 3 ELSE 0) + (IF category THEN 2 ELSE 0)
                  + (IF location THEN 2 ELSE 0) + (IF size THEN 3 ELSE 0), 10)

\* The steps of webhook_reply after the body is read.
WebhookPcs == {"wh_lookup", "wh_sentiment", "wh_status", "wh_resp"}

\* C16: every step of a webhook call for a stored lead id leaves the stored
\* ids, the current ICP, the set of Lead objects and every other lead as they
\* are, and changes no field of the addressed lead but status and sentiment.
C16_WebhookFrame ==
    [][\A t \in SeqThreads :
          (/\ pc[t] \in WebhookPcs
           /\ ~lead_not_found(Get(req[t].data, "lead_id", None), LEADS))
          => LET lead_id == req[t].data.lead_id
             IN  /\ LEADS' = LEADS
                 /\ CURRENT_ICP' = CURRENT_ICP
                 /\ DOMAIN heap' = DOMAIN heap
                 /\ \A id \in DOMAIN heap \ {lead_id} : heap'[id] = heap[id]
                 /\ heap'[lead_id] =
                       [heap[lead_id] EXCEPT !.status = heap'[lead_id].status,
                                             !.sentiment = heap'[lead_id].sentiment]]_vars

\* C16 witness: a call has written status and sentiment of one scored lead
\* with sequences, in a store that holds other leads.
C16_Witness ==
    \E t \in SeqThreads :
        /\ pc[t] = "wh_resp"
        /\ heap[lead[t]].status = "replied"
        /\ heap[lead[t]].sentiment = "neutral"
        /\ heap[lead[t]].qualification_score > 0
        /\ heap[lead[t]].channel_sequences # EmptyDict
        /\ \E id \in Range(LEADS) : id # lead[t] /\ heap[id].status = "messaged"

\* C18: in every state, also in the middle of a run, every lead of the
\* store, and so every lead of a listing and every lead a webhook call holds,
\* has status messaged or replied.
C18_StoredLeadsProcessed ==
    /\ \A id \in Range(LEADS) : heap[id].status \in {"messaged", "replied"}
    /\ \A t \in Threads :
          /\ (resp[t].kind = "html")
                => \A k \in DOMAIN resp[t].leads :
                      heap[resp[t].leads[k]].status \in {"messaged", "replied"}
          /\ (lead[t] # "") => heap[lead[t]].status \in {"messaged", "replied"}

\* C18 witness: a run is between its stages, holding a lead that is only
\* qualified, while the store holds leads of an earlier run.
C18_Witness ==
    \E t \in SeqThreads :
        /\ pc[t] = "generate"
        /\ LEADS # <<>>
        /\ heap[Current(t)].status = "qualified"
        /\ Current(t) \notin Range(LEADS)

\* The numeric fields of the /run form.
NumericFields == {"size_min", "size_max", "lead_limit"}

\* Numerals of up to two digits, an underscore between the digits allowed.
Numerals ==
    {str(n) : n \in 0..99}
    \cup {a \o u \o b : a, b \in {str(n) : n \in 0..9}, u \in {"", "_"}}

\* The texts of the integers of small magnitude: a numeral with or without a
\* sign, with or without whitespace around it.
IntegerTexts ==
    {l \o sg \o n \o r :
        l \in {"", " ", "\t"}, sg \in {"", "-", "+"}, n \in Numerals, r \in {"", " ", "\n"}}

\* A numeric field of the form is present and is not the text of an integer.
Malformed(form) ==
    \E key \in NumericFields \cap DOMAIN form : form[key] \notin IntegerTexts

\* C19: the handling of a /run form with a malformed numeric field ends the
\* request in an error, starts no pipeline and leaves the current ICP, the
\* store and the Lead objects as they were.
C19_MalformedRunRejected ==
    [][\A t \in Threads :
          (pc[t] = "run_form" /\ pc'[t] # "run_form" /\ Malformed(req[t].form))
          => /\ pc'[t] = "idle"
             /\ resp'[t].kind = "error"
             /\ CURRENT_ICP' = CURRENT_ICP
             /\ LEADS' = LEADS
             /\ heap' = heap
             /\ seed' = seed]_vars

\* C19 witness: a /run request has ended in the error of a malformed number
\* with an ICP set and leads stored by an earlier run.
C19_Witness ==
    \E t \in SeqThreads :
        /\ pc[t] = "idle"
        /\ resp[t].kind = "error"
        /\ resp[t].raised = "ValueError"
        /\ CURRENT_ICP # NoICP
        /\ LEADS # <<>>

====
